---- MODULE Spec2Model ----
(***************************************************************************)
(* Model of the event service of Phase-1/main.py (FastAPI handlers over a  *)
(* MongoDB collection and a Redis cache) together with the seeding script  *)
(* Phase-1/seed_db.py.                                                     *)
(*                                                                         *)
(* Strings are sequences of one-character strings, so that the cache key   *)
(* f"event:{event_id}", str(ObjectId) and ObjectId.is_valid are computed   *)
(* character by character.  An ObjectId is modelled by a natural number    *)
(* whose str() is its 24-digit hexadecimal rendering.                      *)
(*                                                                         *)
(* Every handler is split at its await points: the Redis calls are         *)
(* synchronous, each Mongo call is awaited and is one step of its own.     *)
(* The data operations are modelled with both services reachable; only     *)
(* health_check observes connectivity.                                     *)
(***************************************************************************)
EXTENDS Naturals, Integers, Sequences, FiniteSets, TLC

\* ---------------------------------------------------------------- bounds
MaxOid == 2        \* ObjectIds the store hands out
NSeed == 1         \* how many of the sample_events the seeding inserts
MaxTime == 3600    \* the clock stops here
TickStep == 1800   \* seconds per clock step

\* ---------------------------------------------------------------- constants
CACHE_TTL == 3600
OidLen == 24

\* the request handlers that may be in flight together
Procs == {"h1", "h2"}
None == "None"

\* ---------------------------------------------------------------- strings
HexDigits == <<"0","1","2","3","4","5","6","7","8","9","a","b","c","d","e","f">>
HexChars == {HexDigits[i] : i \in 1..16}

HexVal(c) == (CHOOSE i \in 1..16 : HexDigits[i] = c) - 1

KeyPrefix == <<"e","v","e","n","t",":">>

\* cache_key = f"event:{event_id}"
CacheKey(event_id) == KeyPrefix \o event_id

\* ObjectId.is_valid(s) for a str: 24 hexadecimal characters
is_valid(s) == Len(s) = OidLen /\ \A i \in 1..Len(s) : s[i] \in HexChars

\* str(ObjectId): 24 hexadecimal digits, most significant first
RECURSIVE HexOf(_, _)
HexOf(n, len) == IF len = 0 THEN << >>
                 ELSE Append(HexOf(n \div 16, len - 1), HexDigits[(n % 16) + 1])

OidStr(oid) == HexOf(oid, OidLen)

\* ObjectId(s): the value of a valid hexadecimal string
RECURSIVE HexParse(_)
HexParse(s) == IF s = << >> THEN 0
               ELSE 16 * HexParse(SubSeq(s, 1, Len(s) - 1)) + HexVal(s[Len(s)])

ObjectId(s) == HexParse(s)

\* ---------------------------------------------------------------- data
\* sample_events of seed_db.py (the first four are HARDCODED_EVENTS of main.py)
SampleFields(i) ==
    CASE i = 1 -> [title |-> "Tech Conference 2025", date |-> "2025-11-15T09:00:00",
                   location |-> "San Francisco, CA", category |-> "Technology",
                   organizer |-> "Tech Corp",
                   description |-> "Annual technology conference featuring the latest innovations"]
      [] i = 2 -> [title |-> "Music Festival", date |-> "2025-08-20T14:00:00",
                   location |-> "Austin, TX", category |-> "Music",
                   organizer |-> "Live Nation",
                   description |-> "Three-day outdoor music festival with top artists"]
      [] i = 3 -> [title |-> "Food & Wine Expo", date |-> "2025-10-05T11:00:00",
                   location |-> "New York, NY", category |-> "Food",
                   organizer |-> "Culinary Institute",
                   description |-> "Culinary experience with renowned chefs"]
      [] i = 4 -> [title |-> "Marathon 2025", date |-> "2025-09-10T07:00:00",
                   location |-> "Boston, MA", category |-> "Sports",
                   organizer |-> "Boston Athletic Association",
                   description |-> "Annual city marathon for runners of all levels"]
      [] OTHER -> [title |-> "AI Workshop Bengaluru", date |-> "2025-11-01T10:00:00",
                   location |-> "Bengaluru, Karnataka", category |-> "Technology",
                   organizer |-> "Indian Institute of Science",
                   description |-> "Hands-on workshop on machine learning and AI"]

SampleId(i) == <<HexDigits[i + 1]>>

\* the class Event: id plus the six content fields (extra keys are dropped)
Event(id, f) == [id |-> id, title |-> f.title, description |-> f.description,
                 date |-> f.date, location |-> f.location,
                 category |-> f.category, organizer |-> f.organizer]

HARDCODED_EVENTS == [i \in 1..4 |-> Event(SampleId(i), SampleFields(i))]

\* bodies accepted by POST /api/events (EventCreate; category and organizer optional)
EventCreate == {[title |-> "Meetup", date |-> "2026-01-01T10:00:00", location |-> "Pune",
                 category |-> None, organizer |-> None, description |-> "Monthly meetup"]}

\* json.dumps(event.model_dump())
dumps(e) == <<e.id, e.title, e.description, e.date, e.location, e.category, e.organizer>>

\* deserialization that loses the optional category
loads_dropCategory(t) == [id |-> t[1], title |-> t[2], description |-> t[3], date |-> t[4],
                          location |-> t[5], category |-> None, organizer |-> t[7]]

\* Event(**json.loads(text))
loads(t) == [id |-> t[1], title |-> t[2], description |-> t[3], date |-> t[4],
             location |-> t[5], category |-> t[6], organizer |-> t[7]]

\* identifiers a client sends: the sample ids and the renderings of ObjectIds
ReqIds == {SampleId(i) : i \in 1..NSeed} \cup {OidStr(n) : n \in 1..MaxOid}


\* ---------------------------------------------------------------- state
VARIABLES
    store,        \* events_collection: documents [_id, id, fields, created_at]
    nextOid,      \* the next ObjectId the store generates
    cache,        \* redis: key -> [val, exp] (plus history fields at, ret)
    now,          \* wall clock, in seconds
    seeding,      \* seed_database is between delete_many and insert_many
    pc,           \* position of each request handler
    req,          \* the local variables of each request handler
    lastDel,      \* history: the last successful DELETE since the seeding, if any
    expired       \* history: key -> the value of the entry that expired last

vars == <<store, nextOid, cache, now, seeding, pc, req, lastDel, expired>>

\* datetime.utcnow().isoformat(): a timestamp string no handler reads back
utcnow == "utcnow"

\* a document without an "id" key carries the empty string here
NoId == << >>

NoReq == [op |-> "none", id |-> << >>, found |-> << >>, status |-> 0,
          result |-> << >>, lookups |-> 0, tried |-> {}, hit |-> FALSE,
          cached0 |-> FALSE, matched0 |-> FALSE, string0 |-> FALSE,
          prior |-> << >>]

\* find_one / delete_one filters
ByNative(event_id) == {d \in store : is_valid(event_id) /\ d._id = ObjectId(event_id)}

ByString(event_id) == {d \in store : d.id # NoId /\ d.id = event_id}

Matches(event_id) == ByNative(event_id) \cup ByString(event_id)

\* redis_client.get(key): a value while the entry has not expired
Live(key) == key \in DOMAIN cache /\ now < cache[key].exp

\* an invalidation that removes nothing
CacheDelete_keep(key) == cache

\* redis_client.delete(key): removing a missing key is not an error
CacheDelete(key) == [k \in DOMAIN cache \ {key} |-> cache[k]]

\* redis_client.setex(key, CACHE_TTL, value)
CacheSetex(key, entry) == [k \in DOMAIN cache \cup {key} |-> IF k = key THEN entry ELSE cache[k]]

\* event_data["id"] = str(event_data.pop("_id")); Event(**event_data)
Normalize(d) == Event(OidStr(d._id), d.fields)

Init ==
    /\ store = {}
    /\ nextOid = 1
    /\ cache = << >>
    /\ now = 0
    /\ seeding = FALSE
    /\ pc = [p \in Procs |-> "idle"]
    /\ req = [p \in Procs |-> NoReq]
    /\ lastDel = << >>
    /\ expired = << >>

Begin(p, op, event_id) ==
    [NoReq EXCEPT !.op = op, !.id = event_id,
                  !.cached0 = Live(CacheKey(event_id)),
                  !.matched0 = Matches(event_id) # {},
                  !.string0 = (ByString(event_id) # {} /\ ByNative(event_id) = {}),
                  !.prior = IF Live(CacheKey(event_id))
                            THEN <<cache[CacheKey(event_id)].ret>> ELSE << >>]

\* ---------------------------------------------------------------- GET /api/events/{event_id}
\* a hit that renews the expiry of the entry (sliding expiry)
GetStart_sliding(p, event_id) ==
    /\ pc[p] = "idle"
    /\ LET r == Begin(p, "get", event_id)
           key == CacheKey(event_id)
       IN IF Live(key)
          THEN /\ req' = [req EXCEPT ![p] = [r EXCEPT !.hit = TRUE, !.status = 200,
                                                    !.result = <<loads(cache[key].val)>>]]
               /\ pc' = [pc EXCEPT ![p] = "done"]
               /\ cache' = [cache EXCEPT ![key].exp = now + CACHE_TTL]
          ELSE /\ req' = [req EXCEPT ![p] = r]
               /\ pc' = [pc EXCEPT ![p] = IF is_valid(event_id) THEN "get_native"
                                          ELSE "get_string"]
               /\ cache' = cache
    /\ UNCHANGED <<store, nextOid, now, seeding, lastDel, expired>>

\* lines 110-117: cache lookup; a hit returns the deserialized snapshot
GetStart(p, event_id) ==
    /\ pc[p] = "idle"
    /\ LET r == Begin(p, "get", event_id)
           key == CacheKey(event_id)
       IN IF Live(key)
          THEN /\ req' = [req EXCEPT ![p] = [r EXCEPT !.hit = TRUE, !.status = 200,
                                                    !.result = <<loads(cache[key].val)>>]]
               /\ pc' = [pc EXCEPT ![p] = "done"]
          ELSE /\ req' = [req EXCEPT ![p] = r]
               /\ pc' = [pc EXCEPT ![p] = IF is_valid(event_id) THEN "get_native"
                                          ELSE "get_string"]
    /\ UNCHANGED <<store, nextOid, cache, now, seeding, lastDel, expired>>

\* lines 123-127: find_one({"_id": ObjectId(event_id)})
GetNative(p) ==
    /\ pc[p] = "get_native"
    /\ LET ds == ByNative(req[p].id)
           r == [req[p] EXCEPT !.lookups = @ + 1, !.tried = @ \cup {"native"}]
       IN IF ds # {}
          THEN \E d \in ds :
                 /\ req' = [req EXCEPT ![p] = [r EXCEPT !.found = <<d>>]]
                 /\ pc' = [pc EXCEPT ![p] = "get_fill"]
          ELSE /\ req' = [req EXCEPT ![p] = r]
               /\ pc' = [pc EXCEPT ![p] = "get_string"]
    /\ UNCHANGED <<store, nextOid, cache, now, seeding, lastDel, expired>>

\* a string lookup whose filter matches any document
GetString_anyDoc(p) ==
    /\ pc[p] = "get_string"
    /\ LET ds == store
           r == [req[p] EXCEPT !.lookups = @ + 1, !.tried = @ \cup {"string"}]
       IN IF ds # {}
          THEN \E d \in ds :
                 /\ req' = [req EXCEPT ![p] = [r EXCEPT !.found = <<d>>]]
                 /\ pc' = [pc EXCEPT ![p] = "get_fill"]
          ELSE /\ req' = [req EXCEPT ![p] = [r EXCEPT !.status = 404]]
               /\ pc' = [pc EXCEPT ![p] = "done"]
    /\ UNCHANGED <<store, nextOid, cache, now, seeding, lastDel, expired>>

\* lines 130-134: find_one({"id": event_id}), 404 when nothing was found
GetString(p) ==
    /\ pc[p] = "get_string"
    /\ LET ds == ByString(req[p].id)
           r == [req[p] EXCEPT !.lookups = @ + 1, !.tried = @ \cup {"string"}]
       IN IF ds # {}
          THEN \E d \in ds :
                 /\ req' = [req EXCEPT ![p] = [r EXCEPT !.found = <<d>>]]
                 /\ pc' = [pc EXCEPT ![p] = "get_fill"]
          ELSE /\ req' = [req EXCEPT ![p] = [r EXCEPT !.status = 404]]
               /\ pc' = [pc EXCEPT ![p] = "done"]
    /\ UNCHANGED <<store, nextOid, cache, now, seeding, lastDel, expired>>

\* a fill that caches only a document the store still holds
GetFill_recheck(p) ==
    /\ pc[p] = "get_fill"
    /\ LET key == CacheKey(req[p].id)
           event == Normalize(req[p].found[1])
       IN /\ cache' = IF req[p].found[1] \in store
                      THEN CacheSetex(key, [val |-> dumps(event), exp |-> now + CACHE_TTL,
                                            at |-> now, ret |-> event])
                      ELSE cache
          /\ req' = [req EXCEPT ![p] = [@ EXCEPT !.status = 200, !.result = <<event>>]]
    /\ pc' = [pc EXCEPT ![p] = "done"]
    /\ UNCHANGED <<store, nextOid, now, seeding, lastDel, expired>>

\* lines 137-149: normalise the document, setex, return the event
GetFill(p) ==
    /\ pc[p] = "get_fill"
    /\ LET key == CacheKey(req[p].id)
           event == Normalize(req[p].found[1])
       IN /\ cache' = CacheSetex(key, [val |-> dumps(event), exp |-> now + CACHE_TTL,
                                       at |-> now, ret |-> event])
          /\ req' = [req EXCEPT ![p] = [@ EXCEPT !.status = 200, !.result = <<event>>]]
    /\ pc' = [pc EXCEPT ![p] = "done"]
    /\ UNCHANGED <<store, nextOid, now, seeding, lastDel, expired>>


\* ---------------------------------------------------------------- DELETE /api/events/{event_id}
\* a delete that invalidates the cache only when a document matches
DelStart_verifyFirst(p, event_id) ==
    /\ pc[p] = "idle"
    /\ cache' = IF Matches(event_id) = {} THEN cache ELSE CacheDelete(CacheKey(event_id))
    /\ req' = [req EXCEPT ![p] = Begin(p, "delete", event_id)]
    /\ pc' = [pc EXCEPT ![p] = IF is_valid(event_id) THEN "del_native" ELSE "del_string"]
    /\ UNCHANGED <<store, nextOid, now, seeding, lastDel, expired>>

\* lines 172-177: invalidate the cache entry, then ObjectId(event_id), which
\* raises for a string that is not a valid ObjectId
DelStart(p, event_id) ==
    /\ pc[p] = "idle"
    /\ cache' = CacheDelete(CacheKey(event_id))
    /\ req' = [req EXCEPT ![p] = Begin(p, "delete", event_id)]
    /\ pc' = [pc EXCEPT ![p] = IF is_valid(event_id) THEN "del_native" ELSE "del_string"]
    /\ UNCHANGED <<store, nextOid, now, seeding, lastDel, expired>>

\* the end of the handler once delete_one has answered (lines 181-184)
Finish(p, r, gone) ==
    /\ store' = store \ gone
    /\ req' = [req EXCEPT ![p] = [r EXCEPT !.status = IF Cardinality(gone) = 0 THEN 404 ELSE 200]]
    /\ pc' = [pc EXCEPT ![p] = "done"]
    /\ lastDel' = IF gone = {} THEN lastDel
                  ELSE <<[id |-> r.id, oids |-> {d._id : d \in gone}]>>
    /\ UNCHANGED <<nextOid, cache, now, seeding, expired>>

\* line 177: delete_one({"_id": ObjectId(event_id)})
DelNative(p) ==
    /\ pc[p] = "del_native"
    /\ LET ds == ByNative(req[p].id)
           r == [req[p] EXCEPT !.lookups = @ + 1, !.tried = @ \cup {"native"}]
       IN IF ds = {} THEN Finish(p, r, {})
          ELSE \E d \in ds : Finish(p, r, {d})

\* lines 178-179: the except branch, delete_one({"id": event_id})
DelString(p) ==
    /\ pc[p] = "del_string"
    /\ LET ds == ByString(req[p].id)
           r == [req[p] EXCEPT !.lookups = @ + 1, !.tried = @ \cup {"string"}]
       IN IF ds = {} THEN Finish(p, r, {})
          ELSE \E d \in ds : Finish(p, r, {d})

\* ---------------------------------------------------------------- POST /api/events
\* a create that also writes the new event into the cache
Create_populate(p, body) ==
    /\ pc[p] = "idle"
    /\ nextOid <= MaxOid
    /\ store' = store \cup {[_id |-> nextOid, id |-> NoId, fields |-> body, created_at |-> utcnow]}
    /\ nextOid' = nextOid + 1
    /\ req' = [req EXCEPT ![p] = [NoReq EXCEPT !.op = "create", !.status = 201,
                                               !.result = <<Event(OidStr(nextOid), body)>>]]
    /\ pc' = [pc EXCEPT ![p] = "done"]
    /\ cache' = CacheSetex(CacheKey(OidStr(nextOid)),
                           [val |-> dumps(Event(OidStr(nextOid), body)),
                            exp |-> now + CACHE_TTL, at |-> now,
                            ret |-> Event(OidStr(nextOid), body)])
    /\ UNCHANGED <<now, seeding, lastDel, expired>>

\* lines 157-163: insert_one generates the _id; the document has no "id" key
Create(p, body) ==
    /\ pc[p] = "idle"
    /\ nextOid <= MaxOid
    /\ store' = store \cup {[_id |-> nextOid, id |-> NoId, fields |-> body, created_at |-> utcnow]}
    /\ nextOid' = nextOid + 1
    /\ req' = [req EXCEPT ![p] = [NoReq EXCEPT !.op = "create", !.status = 201,
                                               !.result = <<Event(OidStr(nextOid), body)>>]]
    /\ pc' = [pc EXCEPT ![p] = "done"]
    /\ UNCHANGED <<cache, now, seeding, lastDel, expired>>

\* ---------------------------------------------------------------- GET /api/events
List(p) ==
    /\ pc[p] = "idle"
    /\ req' = [req EXCEPT ![p] = [NoReq EXCEPT !.op = "list", !.status = 200,
                                               !.result = HARDCODED_EVENTS]]
    /\ pc' = [pc EXCEPT ![p] = "done"]
    /\ UNCHANGED <<store, nextOid, cache, now, seeding, lastDel, expired>>

\* ---------------------------------------------------------------- GET /health
\* each ping either answers or raises; a failure is reported, never raised
Health(p, redis_ok, mongo_ok) ==
    /\ pc[p] = "idle"
    /\ req' = [req EXCEPT ![p] = [NoReq EXCEPT !.op = "health", !.status = 200,
                 !.result = <<[status |-> "healthy",
                               redis |-> IF redis_ok THEN "connected" ELSE "disconnected",
                               mongodb |-> IF mongo_ok THEN "connected" ELSE "disconnected"]>>]]
    /\ pc' = [pc EXCEPT ![p] = "done"]
    /\ UNCHANGED <<store, nextOid, cache, now, seeding, lastDel, expired>>

\* the response leaves the handler
Return(p) ==
    /\ pc[p] = "done"
    /\ pc' = [pc EXCEPT ![p] = "idle"]
    /\ req' = [req EXCEPT ![p] = NoReq]
    /\ UNCHANGED <<store, nextOid, cache, now, seeding, lastDel, expired>>

\* ---------------------------------------------------------------- seed_db.py
\* seed_database, line 72: events_collection.delete_many({})
SeedClear ==
    /\ ~seeding
    /\ nextOid + NSeed - 1 <= MaxOid
    /\ store' = {}
    /\ seeding' = TRUE
    /\ UNCHANGED <<nextOid, cache, now, pc, req, lastDel, expired>>

\* seed_database, line 76: events_collection.insert_many(sample_events)
SeedInsert ==
    /\ seeding
    /\ nextOid + NSeed - 1 <= MaxOid
    /\ store' = store \cup {[_id |-> nextOid + i - 1, id |-> SampleId(i),
                             fields |-> SampleFields(i), created_at |-> utcnow] : i \in 1..NSeed}
    /\ nextOid' = nextOid + NSeed
    /\ seeding' = FALSE
    /\ lastDel' = << >>
    /\ UNCHANGED <<cache, now, pc, req, expired>>

\* ---------------------------------------------------------------- time
\* the clock advances; redis drops the entries whose expiry has been reached
Tick ==
    /\ now + TickStep <= MaxTime
    /\ now' = now + TickStep
    /\ cache' = [k \in {j \in DOMAIN cache : now' < cache[j].exp} |-> cache[k]]
    /\ expired' = [k \in DOMAIN expired \cup (DOMAIN cache \ DOMAIN cache') |->
                      IF k \in DOMAIN cache' \/ k \notin DOMAIN cache
                      THEN expired[k] ELSE cache[k].val]
    /\ UNCHANGED <<store, nextOid, seeding, pc, req, lastDel>>

\* ---------------------------------------------------------------- specifications
Handler(p) ==
    \/ \E event_id \in ReqIds : GetStart(p, event_id)
    \/ GetNative(p)
    \/ GetString(p)
    \/ GetFill(p)
    \/ \E event_id \in ReqIds : DelStart(p, event_id)
    \/ DelNative(p)
    \/ DelString(p)
    \/ \E body \in EventCreate : Create(p, body)
    \/ List(p)
    \/ \E redis_ok \in BOOLEAN, mongo_ok \in BOOLEAN : Health(p, redis_ok, mongo_ok)
    \/ Return(p)

\* one operation at a time: a request or a seeding runs to its end before the
\* next one starts
Quiet == ~seeding /\ \A p \in Procs : pc[p] = "idle"

Next ==
    \/ (Quiet \/ pc["h1"] # "idle") /\ ~seeding /\ Handler("h1")
    \/ Quiet /\ SeedClear
    \/ SeedInsert
    \/ Tick

Spec == Init /\ [][Next]_vars

\* one handler serves GET requests while a second one serves DELETE requests
\* and the seeding script runs beside both.
\* The clock stands still: the overlap is a matter of moments, not of expiry
Deleter(p) ==
    \/ \E event_id \in ReqIds : DelStart(p, event_id)
    \/ DelNative(p)
    \/ DelString(p)
    \/ Return(p)

Reader(p) ==
    \/ \E event_id \in ReqIds : GetStart(p, event_id)
    \/ GetNative(p)
    \/ GetString(p)
    \/ GetFill(p)
    \/ Return(p)

NextConc ==
    \/ Reader("h1")
    \/ \E body \in EventCreate : Create("h1", body)
    \/ Deleter("h2")
    \/ SeedClear
    \/ SeedInsert

SpecConc == Init /\ [][NextConc]_vars

TypeOK ==
    /\ nextOid \in 1..(MaxOid + 1)
    /\ now \in 0..MaxTime
    /\ \A d \in store : d._id < nextOid
    /\ \A p \in Procs : pc[p] \in {"idle", "get_native", "get_string", "get_fill",
                                   "del_native", "del_string", "done"}

\* ---------------------------------------------------------------- properties
Done(p, op) == pc[p] = "done" /\ req[p].op = op

\* the identifier and the cache key of the request that takes a step
StepOp(p) == IF pc[p] = "idle" THEN req'[p].op ELSE req[p].op

StepKey(p) == CacheKey(IF pc[p] = "idle" THEN req'[p].id ELSE req[p].id)

\* cache' is cache with exactly the entry under key written
WritesOnly(key) ==
    /\ DOMAIN cache' = DOMAIN cache \cup {key}
    /\ \A k \in DOMAIN cache \ {key} : cache'[k] = cache[k]

\* cache' is cache with exactly the entry under key removed
RemovesOnly(key) ==
    /\ DOMAIN cache' = DOMAIN cache \ {key}
    /\ \A k \in DOMAIN cache' : cache'[k] = cache[k]

\* the document a cached value is a snapshot of
SnapshotOid(val) == ObjectId(loads(val).id)

\* C1: with one request at a time, once delete(id) has succeeded no document
\* matches id, the cache has no live entry under "event:" + id, and every
\* get(id) that follows answers 404.
C1_DeletedStaysGone ==
    /\ lastDel # << >> =>
         /\ Matches(lastDel[1].id) = {}
         /\ ~Live(CacheKey(lastDel[1].id))
    /\ \A p \in Procs :
         (Done(p, "get") /\ lastDel # << >> /\ req[p].id = lastDel[1].id)
            => req[p].status = 404 /\ req[p].result = << >>

C1_Witness ==
    \E p \in Procs : /\ Done(p, "get") /\ lastDel # << >>
                     /\ req[p].id = lastDel[1].id /\ req[p].status = 404

\* C2: a get(id) that starts with a document matching id and no cache entry
\* answers 200 from the store and its last step writes the entry under
\* "event:" + id; a get(id) that starts while that entry is live answers 200
\* with an Event equal to the one the writing get returned, and issues no
\* store lookup.
C2_Fill ==
    \A p \in Procs : (pc[p] = "get_fill" /\ pc'[p] = "done") =>
        /\ CacheKey(req[p].id) \in DOMAIN cache'
        /\ now < cache'[CacheKey(req[p].id)].exp
        /\ cache'[CacheKey(req[p].id)].ret = req'[p].result[1]

C2_Hit ==
    \A p \in Procs : Done(p, "get") =>
        /\ (~req[p].cached0 /\ req[p].matched0) =>
              req[p].status = 200 /\ ~req[p].hit /\ req[p].lookups >= 1
        /\ req[p].prior # << >> =>
              /\ req[p].status = 200
              /\ req[p].result = req[p].prior
              /\ req[p].lookups = 0

C2_SecondGetFromCache == []C2_Hit /\ [][C2_Fill]_vars

C2_Witness ==
    \E p \in Procs : /\ Done(p, "get") /\ req[p].prior # << >>
                     /\ req[p].result = req[p].prior /\ req[p].lookups = 0
                     /\ req[p].result[1].category # None

\* C3: a delete tries the native deletion first when the id is a valid native
\* identifier, and tries the deletion by the string field whenever the id is
\* not valid or the native deletion removed nothing; so a delete whose id
\* matched a document by its string field only answers 200.
C3_DeleteFallsBack ==
    \A p \in Procs : Done(p, "delete") =>
        /\ is_valid(req[p].id) => "native" \in req[p].tried
        /\ (~is_valid(req[p].id) \/ ~(req[p].status = 200 /\ req[p].tried = {"native"}))
              => "string" \in req[p].tried
        /\ req[p].string0 => req[p].status = 200

\* C4: every cache entry sits under "event:" + the id of the Event it holds,
\* and no two entries hold a snapshot of the same document.
C4_KeyIsSnapshotId ==
    /\ \A k \in DOMAIN cache : k = CacheKey(loads(cache[k].val).id)
    /\ \A k1, k2 \in DOMAIN cache :
         SnapshotOid(cache[k1].val) = SnapshotOid(cache[k2].val) => k1 = k2

\* C5: a delete(id) that starts with no document matching id answers 404 and
\* leaves no entry under "event:" + id; its first step removes that entry
\* before any store call, entry or no entry; a store step that ends in 404
\* leaves the store as it was.
C5_Step ==
    \A p \in Procs :
        /\ (pc[p] = "idle" /\ pc'[p] \in {"del_native", "del_string"}) =>
              /\ CacheKey(req'[p].id) \notin DOMAIN cache'
              /\ req'[p].lookups = 0
              /\ store' = store
        /\ (pc[p] \in {"del_native", "del_string"} /\ req'[p].status = 404) =>
              store' = store

C5_Done ==
    \A p \in Procs : (Done(p, "delete") /\ ~req[p].matched0) =>
        /\ req[p].status = 404
        /\ CacheKey(req[p].id) \notin DOMAIN cache

C5_DeleteMissing == []C5_Done /\ [][C5_Step]_vars

C5_Witness ==
    \E p \in Procs : /\ Done(p, "delete") /\ ~req[p].matched0 /\ req[p].cached0
                     /\ req[p].status = 404 /\ store # {}

\* C6: a get(id) that starts with no cache entry under "event:" + id and no
\* document matching id answers 404 and leaves no entry under that key.
C6_GetMissing ==
    \A p \in Procs : (Done(p, "get") /\ ~req[p].cached0 /\ ~req[p].matched0) =>
        /\ req[p].status = 404
        /\ req[p].result = << >>
        /\ CacheKey(req[p].id) \notin DOMAIN cache

C6_Witness ==
    \E p \in Procs : /\ Done(p, "get") /\ ~req[p].cached0 /\ ~req[p].matched0
                     /\ req[p].status = 404 /\ store # {}

\* C7: a step of a request changes the cache only when it is the last step of
\* a get that found a document (it writes exactly "event:" + id) or the first
\* step of a delete (it removes exactly "event:" + id); steps of get, list and
\* health leave the store unchanged.
C7_Step ==
    \A p \in Procs : pc'[p] # pc[p] =>
        /\ StepOp(p) \in {"get", "list", "health"} => store' = store
        /\ StepOp(p) = "get" =>
              IF pc[p] = "get_fill" THEN WritesOnly(StepKey(p)) ELSE cache' = cache
        /\ StepOp(p) = "delete" =>
              IF pc[p] = "idle" THEN RemovesOnly(StepKey(p)) ELSE cache' = cache
        /\ StepOp(p) \in {"create", "list", "health"} => cache' = cache

C7_Frame == [][C7_Step]_vars

C7_Witness ==
    \E p \in Procs : /\ Done(p, "get") /\ ~req[p].hit /\ req[p].status = 200
                     /\ CacheKey(req[p].id) \in DOMAIN cache
                     /\ Cardinality(DOMAIN cache) >= 2

\* C8: an entry is gone CACHE_TTL seconds after the get that wrote it, hits
\* leave the cache as it is, a get that misses the cache asks the store, and
\* the value cached for a document is the same every time it is cached: an
\* entry re-written after expiry for the same document equals the expired one.
C8_Expiry ==
    /\ \A k \in DOMAIN cache : now < cache[k].at + CACHE_TTL
    /\ \A p \in Procs : (Done(p, "get") /\ ~req[p].cached0 /\ req[p].status = 200) =>
          req[p].lookups >= 1
    /\ \A k \in DOMAIN cache \cap DOMAIN expired :
          SnapshotOid(cache[k].val) = SnapshotOid(expired[k]) => cache[k].val = expired[k]

C8_HitStep ==
    \A p \in Procs : (pc[p] = "idle" /\ pc'[p] = "done" /\ req'[p].hit) => cache' = cache

C8_FixedExpiry == []C8_Expiry /\ [][C8_HitStep]_vars

C8_Witness ==
    \E p \in Procs : /\ Done(p, "get") /\ ~req[p].hit /\ req[p].status = 200
                     /\ CacheKey(req[p].id) \in DOMAIN cache \cap DOMAIN expired
                     /\ cache[CacheKey(req[p].id)].val = expired[CacheKey(req[p].id)]

\* C9: the last step of a get writes the snapshot of the document it read
\* without asking the store again, and a hit answers from the cache alone; so
\* a get overlapping a delete leaves an entry for a deleted document.
C9_FillStep ==
    \A p \in Procs : (pc[p] = "get_fill" /\ pc'[p] = "done") =>
        /\ CacheKey(req[p].id) \in DOMAIN cache'
        /\ cache'[CacheKey(req[p].id)].val = dumps(Normalize(req[p].found[1]))

C9_HitDone ==
    \A p \in Procs : (Done(p, "get") /\ req[p].hit) =>
        req[p].status = 200 /\ req[p].result = req[p].prior /\ req[p].lookups = 0

C9_ReadNotAtomic == []C9_HitDone /\ [][C9_FillStep]_vars

C9_Witness ==
    \E p \in Procs :
        /\ lastDel # << >>
        /\ Done(p, "get") /\ req[p].hit /\ req[p].status = 200
        /\ req[p].id = lastDel[1].id
        /\ ObjectId(req[p].result[1].id) \in lastDel[1].oids
        /\ Matches(req[p].id) = {}
        /\ Live(CacheKey(req[p].id))

\* C10: with one request at a time, after a successful delete no cache entry
\* under any key holds a snapshot of the deleted document.
C10_NoSnapshotOfDeleted ==
    lastDel # << >> =>
        \A k \in DOMAIN cache : SnapshotOid(cache[k].val) \notin lastDel[1].oids

====
